---- MODULE Spec2Model ----
(***************************************************************************)
(* Referral ledger of src/bot.py: a JSON file holding the lists           *)
(* "referrals" (active) and "paid_referrals" (archived), and the Flask    *)
(* handlers that load it, change it and save it.                          *)
(***************************************************************************)
EXTENDS Naturals, Integers, Sequences, FiniteSets, TLC

VARIABLES
    file,   \* DATA_FILE: [exists, referrals, paid_referrals]
    torn,   \* DATA_FILE on disk: "intact", or "truncated"/"partial" inside a save
    last,   \* the last request served one at a time: [op, a1, a2, key, resp, pre, seen]
    attached, \* history: the referees some use-referral request has attached
    pc,     \* per worker thread: "idle", "loaded", "opened", "done"
    req,    \* per worker thread: the request it serves
    db,     \* per worker thread: the dict load_data() returned to it
    resp,   \* per worker thread: the response it returned
    base,   \* DATA_FILE when the current batch of overlapping requests began
    nreq,   \* requests accepted so far by the threaded server
    sched   \* the backup thread: [pc, folder, runs, failed, log, snapshot]

vars == <<file, torn, last, attached, pc, req, db, resp, base, nreq, sched>>

----------------------------------------------------------------------------
(* Bounds of the model *)

\* use_referral caps a referrer at 200 active records; the model runs the
\* same comparison against a small cap.
Cap == 2
\* worker threads of the threaded server that overlap
NProc == 2
\* times the daily backup job comes due in one run
MaxRuns == 2
\* requests the threaded server accepts in one run
MaxReq == 3

(* Program constants *)
AddrLen == 42

----------------------------------------------------------------------------
(* A string is held run-length encoded: a sequence of runs [c, n], n >= 1   *)
(* copies of the character c, no two neighbouring runs of the same         *)
(* character. "0x" followed by forty "a" is three runs.                    *)

Run(c, n) == [c |-> c, n |-> n]

RECURSIVE StrLen(_)
\* len(s)
StrLen(s) == IF s = <<>> THEN 0 ELSE Head(s).n + StrLen(Tail(s))

RECURSIVE CharAt(_, _)
\* s[k - 1] in Python's indexing, for 1 <= k <= len(s)
CharAt(s, k) == IF k <= Head(s).n THEN Head(s).c ELSE CharAt(Tail(s), k - Head(s).n)

RECURSIVE Merge(_)
\* neighbouring runs of one character joined
Merge(s) ==
    IF Len(s) < 2 THEN s
    ELSE IF s[1].c = s[2].c
         THEN Merge(<<Run(s[1].c, s[1].n + s[2].n)>> \o Tail(Tail(s)))
         ELSE <<s[1]>> \o Merge(Tail(s))

lowerChar(c) ==
    CASE c = "A" -> "a"
      [] c = "C" -> "c"
      [] c = "X" -> "x"
      [] OTHER -> c

\* str.lower()
lower(s) == Merge([i \in 1..Len(s) |-> Run(lowerChar(s[i].c), s[i].n)])

\* addr.startswith("0x") and len(addr) == 42
is_valid_address(addr) ==
    /\ StrLen(addr) >= 2
    /\ CharAt(addr, 1) = "0"
    /\ CharAt(addr, 2) = "x"
    /\ StrLen(addr) = AddrLen

\* "" : no referee yet, and what data.get(..., "") gives for a missing field
EmptyStr == <<>>

AddrA == <<Run("0", 1), Run("x", 1), Run("a", AddrLen - 2)>>
AddrB == <<Run("0", 1), Run("x", 1), Run("b", AddrLen - 2)>>
AddrC == <<Run("0", 1), Run("x", 1), Run("c", AddrLen - 2)>>
AddrD == <<Run("0", 1), Run("x", 1), Run("d", AddrLen - 2)>>
\* upper-case spellings of AddrA and AddrC, as a client may send them
AddrAUpper == <<Run("0", 1), Run("X", 1), Run("A", AddrLen - 2)>>
AddrCUpper == <<Run("0", 1), Run("x", 1), Run("C", AddrLen - 2)>>
\* 42 characters without the 0x prefix
AddrNoPrefix == <<Run("a", AddrLen)>>
\* the right prefix, one character short
AddrShort == <<Run("0", 1), Run("x", 1), Run("a", AddrLen - 3)>>

\* "address" values sent to register-referral
RawAddresses == {AddrA, EmptyStr}
\* <address> values of referral-status
RawStatus == {AddrAUpper, AddrB}
\* (referrer, referee) values sent to use-referral: A invites B, C and D, B
\* invites C too, and three pairs have a malformed address
RawPairs ==
    {<<AddrAUpper, AddrB>>, <<AddrAUpper, AddrC>>, <<AddrAUpper, AddrD>>,
     <<AddrB, AddrCUpper>>,
     <<AddrNoPrefix, AddrB>>, <<AddrAUpper, AddrShort>>, <<EmptyStr, EmptyStr>>}

SECRET_KEY == "SUA_CHAVE_SECRETA_PARA_MARCAR_COMO_PAGO"
VALID_FAUCET_USAGE == "VALID_FAUCET_USAGE"

\* faucet_token values a client sends ("" when the field is missing)
Tokens == {VALID_FAUCET_USAGE, ""}
\* X-Secret-Key header values ("None" when the header is missing)
Keys == {SECRET_KEY, "None"}

----------------------------------------------------------------------------
(* Responses: (HTTP status, message) *)

RespInvalidAddress == [code |-> 400, error |-> "Endereco invalido"]
RespBadToken       == [code |-> 401, error |-> "Token invalido"]
RespDuplicate      == [code |-> 400, error |-> "Ja foi indicado por outra carteira."]
RespCapExceeded    == [code |-> 400, error |-> "Limite de indicacoes atingido"]
RespNotAuthorized  == [code |-> 401, error |-> "Nao autorizado"]
RespRegistered     == [code |-> 200, message |-> "Link registrado localmente"]
RespAttached       == [code |-> 200, message |-> "Indicacao registrada!"]
RespMarkedPaid     == [code |-> 200, message |-> "Todas as indicacoes foram marcadas como pagas."]
\* an exception escaping a handler (json.load on a torn file)
RespServerError    == [code |-> 500, error |-> "Internal Server Error"]

----------------------------------------------------------------------------
(* The store *)

EmptyDb == [referrals |-> <<>>, paid_referrals |-> <<>>]
NoFile == [exists |-> FALSE, referrals |-> <<>>, paid_referrals |-> <<>>]

\* the file written afresh by every call, the os.path.exists test left out
load_data_file_always_create(f) ==
    [exists |-> TRUE, referrals |-> <<>>, paid_referrals |-> <<>>]

\* the file load_data() leaves on disk: created with two empty lists when absent
load_data_file(f) ==
    IF f.exists THEN f
    ELSE [exists |-> TRUE, referrals |-> <<>>, paid_referrals |-> <<>>]

\* the dict load_data() returns
load_data(f) ==
    [referrals |-> load_data_file(f).referrals,
     paid_referrals |-> load_data_file(f).paid_referrals]

\* the file save_data(data) leaves on disk
save_data(data) ==
    [exists |-> TRUE, referrals |-> data.referrals,
     paid_referrals |-> data.paid_referrals]

Record(referrer, referee, paid) ==
    [referrer |-> referrer, referee |-> referee, paid |-> paid]

----------------------------------------------------------------------------
(* register_referral *)

\* the lookup matching the stored referee in place of the stored referrer
register_existing_by_referee(d, address) ==
    \E i \in 1..Len(d.referrals) : d.referrals[i].referee = address

\* existing = next((item ... if item["referrer"] == address), None)
register_existing(d, address) ==
    \E i \in 1..Len(d.referrals) : d.referrals[i].referrer = address

\* the record appended without looking for an existing one
register_body_always_append(d, address) ==
    [db |-> [d EXCEPT !.referrals = Append(@, Record(address, EmptyStr, FALSE))],
     save |-> TRUE, resp |-> RespRegistered]

\* the handler after load_data(): [db, save, resp]
register_body(d, address) ==
    IF ~register_existing(d, address)
    THEN [db |-> [d EXCEPT !.referrals = Append(@, Record(address, EmptyStr, FALSE))],
          save |-> TRUE, resp |-> RespRegistered]
    ELSE [db |-> d, save |-> FALSE, resp |-> RespRegistered]

----------------------------------------------------------------------------
(* use_referral *)

\* the duplicate check reading the wrong field of the stored records
already_referenced_by_referrer(d, referee) ==
    \E i \in 1..Len(d.referrals) : d.referrals[i].referrer = referee

\* already_referenced = next((item ... if item["referee"] == referee), None)
already_referenced(d, referee) ==
    \E i \in 1..Len(d.referrals) : d.referrals[i].referee = referee

\* the count leaving out the records that have no referee
total_referrals_attached_only(d, referrer) ==
    Cardinality({i \in 1..Len(d.referrals) :
                    d.referrals[i].referrer = referrer /\ d.referrals[i].referee # EmptyStr})

\* total_referrals = sum(1 for item ... if item["referrer"] == referrer)
total_referrals(d, referrer) ==
    Cardinality({i \in 1..Len(d.referrals) : d.referrals[i].referrer = referrer})

\* the cap compared with > in place of >=
cap_reached_strict(n) == n > Cap

\* if total_referrals >= 200
cap_reached(n) == n >= Cap

\* the token compared before the addresses are looked at
use_referral_validate_token_first(referrer, referee, faucet_token) ==
    IF faucet_token # VALID_FAUCET_USAGE
    THEN [pass |-> FALSE, resp |-> RespBadToken]
    ELSE IF ~is_valid_address(referrer) \/ ~is_valid_address(referee)
    THEN [pass |-> FALSE, resp |-> RespInvalidAddress]
    ELSE [pass |-> TRUE, resp |-> RespAttached]

\* the checks made before load_data(): a response, or "pass"
use_referral_validate(referrer, referee, faucet_token) ==
    IF ~is_valid_address(referrer) \/ ~is_valid_address(referee)
    THEN [pass |-> FALSE, resp |-> RespInvalidAddress]
    ELSE IF faucet_token # VALID_FAUCET_USAGE
    THEN [pass |-> FALSE, resp |-> RespBadToken]
    ELSE [pass |-> TRUE, resp |-> RespAttached]

\* the cap looked at before the duplicate check
use_referral_body_cap_first(d, referrer, referee) ==
    IF cap_reached(total_referrals(d, referrer))
    THEN [db |-> d, save |-> FALSE, resp |-> RespCapExceeded]
    ELSE IF already_referenced(d, referee)
    THEN [db |-> d, save |-> FALSE, resp |-> RespDuplicate]
    ELSE [db |-> [d EXCEPT !.referrals = Append(@, Record(referrer, referee, FALSE))],
          save |-> TRUE, resp |-> RespAttached]

\* the referee written into the referrer's registration record when there is
\* one, in place of a new record
use_referral_body_fill_registration(d, referrer, referee) ==
    IF already_referenced(d, referee)
    THEN [db |-> d, save |-> FALSE, resp |-> RespDuplicate]
    ELSE IF cap_reached(total_referrals(d, referrer))
    THEN [db |-> d, save |-> FALSE, resp |-> RespCapExceeded]
    ELSE IF \E i \in 1..Len(d.referrals) : d.referrals[i] = Record(referrer, EmptyStr, FALSE)
    THEN [db |-> [d EXCEPT !.referrals =
                    [i \in 1..Len(@) |-> IF @[i] = Record(referrer, EmptyStr, FALSE)
                                          THEN Record(referrer, referee, FALSE) ELSE @[i]]],
          save |-> TRUE, resp |-> RespAttached]
    ELSE [db |-> [d EXCEPT !.referrals = Append(@, Record(referrer, referee, FALSE))],
          save |-> TRUE, resp |-> RespAttached]

\* the record appended and saved before the cap is looked at
use_referral_body_append_before_cap(d, referrer, referee) ==
    IF already_referenced(d, referee)
    THEN [db |-> d, save |-> FALSE, resp |-> RespDuplicate]
    ELSE [db |-> [d EXCEPT !.referrals = Append(@, Record(referrer, referee, FALSE))],
          save |-> TRUE,
          resp |-> IF cap_reached(total_referrals(d, referrer))
                   THEN RespCapExceeded ELSE RespAttached]

\* the handler after load_data(): [db, save, resp]
use_referral_body(d, referrer, referee) ==
    IF already_referenced(d, referee)
    THEN [db |-> d, save |-> FALSE, resp |-> RespDuplicate]
    ELSE IF cap_reached(total_referrals(d, referrer))
    THEN [db |-> d, save |-> FALSE, resp |-> RespCapExceeded]
    ELSE [db |-> [d EXCEPT !.referrals = Append(@, Record(referrer, referee, FALSE))],
          save |-> TRUE, resp |-> RespAttached]

----------------------------------------------------------------------------
(* mark_paid *)

\* the records moved without their paid flag set
set_paid_skipped(refs) == refs

\* for ref in db["referrals"]: ref["paid"] = True
set_paid(refs) == [i \in 1..Len(refs) |-> [refs[i] EXCEPT !.paid = TRUE]]

\* db["paid_referrals"] = db["referrals"]; db["referrals"] = []
mark_paid_body(d) ==
    [db |-> [referrals |-> <<>>, paid_referrals |-> set_paid(d.referrals)],
     save |-> TRUE, resp |-> RespMarkedPaid]

----------------------------------------------------------------------------
(* referral_status, payout_list *)

\* the archived records searched as well as the active ones
referral_status_body_with_archive(d, address) ==
    LET referrals == SelectSeq(d.referrals \o d.paid_referrals, LAMBDA r : r.referrer = address)
        total == Len(referrals)
        paid == Cardinality({i \in 1..Len(referrals) : referrals[i].paid})
    IN [code |-> 200, total_referrals |-> total, paid |-> paid,
        unpaid |-> total - paid, referrals |-> referrals]

\* referrals = [r for r in db["referrals"] if r["referrer"] == address] and
\* the counts returned with it
referral_status_body(d, address) ==
    LET referrals == SelectSeq(d.referrals, LAMBDA r : r.referrer = address)
        total == Len(referrals)
        paid == Cardinality({i \in 1..Len(referrals) : referrals[i].paid})
    IN [code |-> 200, total_referrals |-> total, paid |-> paid,
        unpaid |-> total - paid, referrals |-> referrals]

RECURSIVE multisend_skip_empty(_)
\* no entry made for a wallet that is the empty string
multisend_skip_empty(unpaid) ==
    IF unpaid = <<>> THEN <<>>
    ELSE <<[wallet |-> Head(unpaid).referrer, amount |-> 5]>>
         \o (IF Head(unpaid).referee = EmptyStr THEN <<>>
             ELSE <<[wallet |-> Head(unpaid).referee, amount |-> 5]>>)
         \o multisend_skip_empty(Tail(unpaid))

RECURSIVE multisend(_)
multisend(unpaid) ==
    IF unpaid = <<>> THEN <<>>
    ELSE <<[wallet |-> Head(unpaid).referrer, amount |-> 5],
           [wallet |-> Head(unpaid).referee, amount |-> 5]>> \o multisend(Tail(unpaid))

RECURSIVE SumAmount(_)
SumAmount(l) == IF l = <<>> THEN 0 ELSE Head(l).amount + SumAmount(Tail(l))

payout_list_body(d) ==
    LET unpaid == SelectSeq(d.referrals, LAMBDA r : ~r.paid)
        multisend_list == multisend(unpaid)
    IN [code |-> 200, total_people |-> Len(multisend_list),
        total_ommv_to_send |-> SumAmount(multisend_list),
        multisend_list |-> multisend_list]

----------------------------------------------------------------------------
(* backup_json_file *)

\* the snapshot written to the backup folder, or the failure logged
backup_body(d) == [code |-> 0, backup |-> d]
BackupFailed == [code |-> 0, logged |-> "Falha ao fazer backup"]

----------------------------------------------------------------------------
(* A request, and the two halves of its handler: the checks made before    *)
(* load_data(), and the work done on the dict load_data() returned.        *)

Request(op, a1, a2, key) ==
    [op |-> op, a1 |-> a1, a2 |-> a2, key |-> key, snap |-> {}, with |-> {}]
NoReq == Request("none", EmptyStr, EmptyStr, "")

ReadOps == {"referral_status", "payout_list", "backup_json_file"}

\* if secret_key != SECRET_KEY
mark_paid_authorized(secret_key) == secret_key = SECRET_KEY

\* [pass, resp]: whether the handler goes on to load_data(), and the response
\* it returns when it does not
Admit(r) ==
    CASE r.op = "register_referral" ->
           IF is_valid_address(lower(r.a1))
           THEN [pass |-> TRUE, resp |-> RespRegistered]
           ELSE [pass |-> FALSE, resp |-> RespInvalidAddress]
      [] r.op = "use_referral" ->
           use_referral_validate(lower(r.a1), lower(r.a2), r.key)
      [] r.op = "mark_paid" ->
           IF mark_paid_authorized(r.key)
           THEN [pass |-> TRUE, resp |-> RespMarkedPaid]
           ELSE [pass |-> FALSE, resp |-> RespNotAuthorized]
      [] OTHER -> [pass |-> TRUE, resp |-> [code |-> 200]]

\* [db, save, resp]: the dict the handler ends with, whether it calls
\* save_data(db), and its response
Body(d, r) ==
    CASE r.op = "register_referral" -> register_body(d, lower(r.a1))
      [] r.op = "use_referral" -> use_referral_body(d, lower(r.a1), lower(r.a2))
      [] r.op = "mark_paid" -> mark_paid_body(d)
      [] r.op = "referral_status" ->
           [db |-> d, save |-> FALSE, resp |-> referral_status_body(d, lower(r.a1))]
      [] r.op = "payout_list" ->
           [db |-> d, save |-> FALSE, resp |-> payout_list_body(d)]
      [] OTHER -> [db |-> d, save |-> FALSE, resp |-> backup_body(d)]

\* what a handler's [db, save, resp] leaves on disk, given the file it loaded
Stored(f, out) == IF out.save THEN save_data(out.db) ELSE load_data_file(f)

\* the whole handler, first line to return, on the file f: [file, resp]
Handle(f, r) ==
    IF ~Admit(r).pass
    THEN [file |-> f, resp |-> Admit(r).resp]
    ELSE LET out == Body(load_data(f), r)
         IN [file |-> Stored(f, out), resp |-> out.resp]

----------------------------------------------------------------------------
(* Requests served one at a time: every handler runs from its first line  *)
(* to its return before the next one starts.                              *)

Procs == 1..NProc

\* the referee a successful use-referral request attached
NewReferee(r, f) ==
    IF r = RespAttached THEN {f.referrals[Len(f.referrals)].referee} ELSE {}

Served(r) ==
    \E run \in {Handle(file, r)} :
    /\ last' = [op |-> r.op, a1 |-> r.a1, a2 |-> r.a2, key |-> r.key,
                resp |-> run.resp, pre |-> file, seen |-> attached]
    /\ file' = run.file
    /\ attached' = attached \cup NewReferee(run.resp, run.file)
    /\ base' = run.file
    /\ UNCHANGED <<torn, pc, req, db, resp, nreq, sched>>

register_referral(raw) ==
    /\ Served(Request("register_referral", raw, EmptyStr, ""))

use_referral(rawReferrer, rawReferee, faucet_token) ==
    /\ Served(Request("use_referral", rawReferrer, rawReferee, faucet_token))

mark_paid(secret_key) ==
    /\ Served(Request("mark_paid", EmptyStr, EmptyStr, secret_key))

referral_status(raw) ==
    /\ Served(Request("referral_status", raw, EmptyStr, ""))

payout_list ==
    /\ Served(Request("payout_list", EmptyStr, EmptyStr, ""))

backup_json_file ==
    /\ Served(Request("backup_json_file", EmptyStr, EmptyStr, ""))

\* the backup thread as start_backup_scheduler() enters its loop: no backup
\* folder yet, no export made
SchedInit ==
    [pc |-> "running", folder |-> FALSE, runs |-> 0, failed |-> "none",
     log |-> "none", snapshot |-> EmptyDb]

NoLast == [op |-> "none", a1 |-> EmptyStr, a2 |-> EmptyStr, key |-> "",
           resp |-> [code |-> 0], pre |-> NoFile, seen |-> {}]

Init ==
    /\ file = NoFile
    /\ torn = "intact"
    /\ last = NoLast
    /\ attached = {}
    /\ pc = [p \in Procs |-> "idle"]
    /\ req = [p \in Procs |-> NoReq]
    /\ db = [p \in Procs |-> EmptyDb]
    /\ resp = [p \in Procs |-> [code |-> 0]]
    /\ base = NoFile
    /\ nreq = 0
    /\ sched = SchedInit

Next ==
    \/ \E raw \in RawAddresses : register_referral(raw)
    \/ \E a \in RawPairs, t \in Tokens : use_referral(a[1], a[2], t)
    \/ \E k \in Keys : mark_paid(k)
    \/ \E raw \in RawStatus : referral_status(raw)
    \/ payout_list
    \/ backup_json_file

Spec == Init /\ [][Next]_vars

----------------------------------------------------------------------------
(* Requests served by overlapping threads. app.run() serves every request  *)
(* on a thread of its own and no handler takes a lock, so between a        *)
(* handler's load_data() and its save_data() other handlers run.           *)

\* the requests the overlapping threads are given
ConcRequests ==
    {Request("register_referral", AddrA, EmptyStr, ""),
     Request("use_referral", AddrAUpper, AddrC, VALID_FAUCET_USAGE),
     Request("use_referral", AddrB, AddrCUpper, VALID_FAUCET_USAGE),
     Request("use_referral", AddrAUpper, AddrShort, VALID_FAUCET_USAGE),
     Request("mark_paid", EmptyStr, EmptyStr, SECRET_KEY),
     Request("mark_paid", EmptyStr, EmptyStr, "None"),
     Request("referral_status", AddrAUpper, EmptyStr, ""),
     Request("payout_list", EmptyStr, EmptyStr, ""),
     Request("backup_json_file", EmptyStr, EmptyStr, "")}

\* what a load_data() made now can return: json.load raises on a file that a
\* save_data() has truncated and not yet written in full
Readable == torn = "intact"

\* the response of a handler whose load_data() raised: the exception leaves a
\* Flask handler as a 500, and backup_json_file catches and logs it
LoadFailed(r) == IF r.op = "backup_json_file" THEN BackupFailed ELSE RespServerError

\* thread p takes the request r and runs its handler up to and including
\* load_data()
Begin(p, r) ==
    /\ pc[p] = "idle"
    /\ nreq < MaxReq
    /\ nreq' = nreq + 1
    /\ req' = [req EXCEPT ![p] =
                 [r EXCEPT !.with = {q \in Procs : pc[q] \in {"loaded", "opened"}},
                           !.snap = {file} \cup {save_data(db[q]) : q \in {x \in Procs : pc[x] = "opened"}}]]
    /\ IF ~Admit(r).pass
       THEN /\ resp' = [resp EXCEPT ![p] = Admit(r).resp]
            /\ pc' = [pc EXCEPT ![p] = "done"]
            /\ UNCHANGED <<file, db>>
       ELSE IF ~Readable
       THEN /\ resp' = [resp EXCEPT ![p] = LoadFailed(r)]
            /\ pc' = [pc EXCEPT ![p] = "done"]
            /\ UNCHANGED <<file, db>>
       ELSE /\ db' = [db EXCEPT ![p] = load_data(file)]
            /\ file' = load_data_file(file)
            /\ pc' = [pc EXCEPT ![p] = "loaded"]
            /\ UNCHANGED resp
    /\ UNCHANGED <<torn, last, attached, base, sched>>

\* thread p runs the rest of its handler: the checks on the loaded dict, the
\* change, save_data() in one piece, and the return
Finish(p) ==
    /\ pc[p] = "loaded"
    /\ \E out \in {Body(db[p], req[p])} :
         /\ file' = IF out.save THEN save_data(out.db) ELSE file
         /\ db' = [db EXCEPT ![p] = out.db]
         /\ resp' = [resp EXCEPT ![p] = out.resp]
    /\ pc' = [pc EXCEPT ![p] = "done"]
    /\ UNCHANGED <<torn, last, attached, req, base, nreq, sched>>

\* every thread has returned: the server is idle, and the file as it stands
\* is what the next requests start from
Quiesce ==
    /\ \A p \in Procs : pc[p] \in {"idle", "done"}
    /\ \E p \in Procs : pc[p] = "done"
    /\ pc' = [p \in Procs |-> "idle"]
    /\ req' = [p \in Procs |-> NoReq]
    /\ db' = [p \in Procs |-> EmptyDb]
    /\ resp' = [p \in Procs |-> [code |-> 0]]
    /\ base' = file
    /\ UNCHANGED <<file, torn, last, attached, nreq, sched>>

NextConc ==
    \/ \E p \in Procs, r \in ConcRequests : Begin(p, r)
    \/ \E p \in Procs : Finish(p)
    \/ Quiesce

SpecConc == Init /\ [][NextConc]_vars

----------------------------------------------------------------------------
(* The same threads with save_data() taken apart: open(DATA_FILE, "w")     *)
(* truncates the file, json.dump fills it, leaving the with block closes   *)
(* it. Thread 1 serves the requests that write, one after the other; the   *)
(* other threads serve the reads.                                          *)

Writer == 1

\* the rest of the handler up to open(DATA_FILE, "w") in save_data()
save_data_open(p) ==
    /\ pc[p] = "loaded"
    /\ \E out \in {Body(db[p], req[p])} :
         /\ db' = [db EXCEPT ![p] = out.db]
         /\ resp' = [resp EXCEPT ![p] = out.resp]
         /\ IF out.save
            THEN /\ torn' = "truncated"
                 /\ pc' = [pc EXCEPT ![p] = "opened"]
            ELSE /\ torn' = torn
                 /\ pc' = [pc EXCEPT ![p] = "done"]
    /\ UNCHANGED <<file, last, attached, req, base, nreq, sched>>

\* json.dump fills the write buffer and a first part of the document reaches
\* the file
save_data_flush(p) ==
    /\ pc[p] = "opened"
    /\ torn = "truncated"
    /\ torn' = "partial"
    /\ UNCHANGED <<file, last, attached, pc, req, db, resp, base, nreq, sched>>

\* the with block ends: the rest is written and the file closed
save_data_close(p) ==
    /\ pc[p] = "opened"
    /\ file' = save_data(db[p])
    /\ torn' = "intact"
    /\ pc' = [pc EXCEPT ![p] = "done"]
    /\ UNCHANGED <<last, attached, req, db, resp, base, nreq, sched>>

NextTorn ==
    \/ \E r \in {x \in ConcRequests : x.op \notin ReadOps} : Begin(Writer, r)
    \/ \E p \in Procs \ {Writer}, r \in {x \in ConcRequests : x.op \in ReadOps} : Begin(p, r)
    \/ save_data_open(Writer)
    \/ save_data_flush(Writer)
    \/ save_data_close(Writer)
    \/ \E p \in Procs \ {Writer} : Finish(p)
    \/ Quiesce

SpecTorn == Init /\ [][NextTorn]_vars

----------------------------------------------------------------------------
(* The backup thread. start_backup_scheduler() registers backup_json_file  *)
(* as a daily job and loops over schedule.run_pending() and a sleep;       *)
(* run_pending() calls a job that is due and catches nothing it raises, so *)
(* an exception leaving backup_json_file leaves the loop and ends the      *)
(* thread. The route handlers go on being served, one at a time.           *)

\* how a call into the operating system ends: it returns, or raises OSError
Outcomes == {"ok", "raise"}

\* one call of backup_json_file() on the file f by the thread in state s,
\* os.makedirs, load_data and the writing of the snapshot ending as mk, ld
\* and wr say: [file, sched]
backup_json_file_run(f, s, mk, ld, wr) ==
    IF ~s.folder /\ mk = "raise"
    THEN \* os.makedirs stands before the try block
         [file |-> f,
          sched |-> [s EXCEPT !.pc = "dead", !.failed = "makedirs", !.log = "none"]]
    ELSE IF ld = "raise"
    THEN [file |-> f,
          sched |-> [s EXCEPT !.folder = TRUE, !.failed = "load_data", !.log = "error"]]
    ELSE IF wr = "raise"
    THEN [file |-> load_data_file(f),
          sched |-> [s EXCEPT !.folder = TRUE, !.failed = "write", !.log = "error"]]
    ELSE [file |-> load_data_file(f),
          sched |-> [s EXCEPT !.folder = TRUE, !.failed = "none", !.log = "info",
                              !.snapshot = load_data(f)]]

\* one turn of the loop with the job due: schedule.run_pending() calls
\* backup_json_file()
run_pending(mk, ld, wr) ==
    /\ sched.pc = "running"
    /\ sched.runs < MaxRuns
    /\ \E run \in {backup_json_file_run(file, sched, mk, ld, wr)} :
         /\ file' = run.file
         /\ base' = run.file
         /\ sched' = [run.sched EXCEPT !.runs = @ + 1]
    /\ UNCHANGED <<torn, last, attached, pc, req, db, resp, nreq>>

NextSched ==
    \/ register_referral(AddrA)
    \/ use_referral(AddrAUpper, AddrB, VALID_FAUCET_USAGE)
    \/ mark_paid(SECRET_KEY)
    \/ \E mk, ld, wr \in Outcomes : run_pending(mk, ld, wr)

SpecSched == Init /\ [][NextSched]_vars

----------------------------------------------------------------------------
(* Views of the ledger used by the properties *)

active(f) == f.referrals
archived(f) == f.paid_referrals

\* number of records of s whose referrer is a
CountReferrer(s, a) == Cardinality({i \in 1..Len(s) : s[i].referrer = a})
\* some record of s has referee a
HasReferee(s, a) == \E i \in 1..Len(s) : s[i].referee = a

\* the normalised valid addresses the requests can name
Wallets ==
    {a \in {lower(x) : x \in RawAddresses \cup RawStatus
                                \cup {y[1] : y \in RawPairs} \cup {y[2] : y \in RawPairs}} :
        is_valid_address(a)}

\* the last request served was use-referral with well-formed addresses and
\* the right token
LastUseValid ==
    /\ last.op = "use_referral"
    /\ is_valid_address(lower(last.a1))
    /\ is_valid_address(lower(last.a2))
    /\ last.key = VALID_FAUCET_USAGE

----------------------------------------------------------------------------
\* C1: with requests served one at a time, a non-empty referee appears in at
\* most one record of the active list.
C1_UniqueReferee ==
    \A i, j \in 1..Len(active(file)) :
        (i # j /\ active(file)[i].referee # EmptyStr)
            => active(file)[i].referee # active(file)[j].referee

\* two referees are attached, and the last request, for one of them again,
\* was refused
C1_Witness ==
    /\ LastUseValid
    /\ last.resp = RespDuplicate
    /\ Cardinality({i \in 1..Len(active(file)) : active(file)[i].referee # EmptyStr}) = 2

\* C2: once a use-referral request has attached referee E, every later
\* use-referral request for E (well-formed addresses, right token) is refused
\* as a duplicate and appends nothing, whatever requests ran in between.
C2_OnceAttachedAlwaysRefused ==
    (LastUseValid /\ lower(last.a2) \in last.seen)
        => (last.resp = RespDuplicate /\ active(file) = active(last.pre))

\* C3: with requests served one at a time, no referrer ever has more than Cap
\* records in the active list (registration records counted), and a
\* use-referral request for a referrer that already has Cap records (naming
\* well-formed addresses, the right token and a referee not yet attached) is
\* refused with "limit reached" and appends nothing.
C3_CapNeverExceeded ==
    /\ \A a \in Wallets : CountReferrer(active(file), a) <= Cap
    /\ ( /\ LastUseValid
         /\ CountReferrer(active(last.pre), lower(last.a1)) >= Cap
         /\ ~HasReferee(active(last.pre), lower(last.a2)) )
       => (last.resp = RespCapExceeded /\ active(file) = active(last.pre))

\* a referrer holds Cap records, all made by use-referral, and the request
\* after them was refused with "limit reached"
C3_Witness ==
    /\ LastUseValid
    /\ last.resp = RespCapExceeded
    /\ CountReferrer(active(file), lower(last.a1)) = Cap
    /\ \A i \in 1..Len(active(file)) :
          active(file)[i].referrer = lower(last.a1) => active(file)[i].referee # EmptyStr

\* C4: mark-paid with the right key sets paid on every active record, appends
\* them in order to the end of the archived list and empties the active list.
C4_SettleAppendsToArchive ==
    (last.op = "mark_paid" /\ last.key = SECRET_KEY)
        => /\ last.resp = RespMarkedPaid
           /\ active(file) = <<>>
           /\ archived(file) = archived(last.pre) \o set_paid(active(last.pre))

\* C5: mark-paid with the right key on an empty active list succeeds and
\* leaves the active and the archived list as they were.
C5_SettleEmptyIsNoOp ==
    (last.op = "mark_paid" /\ last.key = SECRET_KEY /\ active(last.pre) = <<>>)
        => /\ last.resp = RespMarkedPaid
           /\ active(file) = active(last.pre)
           /\ archived(file) = archived(last.pre)

\* threads p and q were both between load_data() and their return at once
Overlap(p, q) == q \in req[p].with \/ p \in req[q].with

\* thread p has returned from a use-referral request that passed the checks
\* made before load_data()
DoneUse(p) ==
    /\ pc[p] = "done"
    /\ req[p].op = "use_referral"
    /\ Admit(req[p]).pass

\* C6: of two overlapping use-referral requests for one referee (well-formed
\* addresses, right token) at most one reports success, and the active list
\* ends with at most one record of that referee.
C6_ConcurrentAttachOnce ==
    \A p, q \in Procs :
        ( /\ p # q /\ DoneUse(p) /\ DoneUse(q) /\ Overlap(p, q)
          /\ lower(req[p].a2) = lower(req[q].a2) )
        => /\ ~(resp[p] = RespAttached /\ resp[q] = RespAttached)
           /\ Cardinality({i \in 1..Len(active(file)) :
                              active(file)[i].referee = lower(req[p].a2)}) <= 1

RECURSIVE SerialFrom(_, _)
\* the requests of the threads in S, run one at a time in some order from
\* the file f, give the responses the threads returned and leave the file
\* now on disk
SerialFrom(f, S) ==
    IF S = {} THEN f = file
    ELSE \E p \in S :
            /\ Handle(f, req[p]).resp = resp[p]
            /\ SerialFrom(Handle(f, req[p]).file, S \ {p})

\* C7: whenever every thread has returned, the file on disk and the
\* responses are those of running the same requests one at a time, in some
\* order, from the file the threads started from.
C7_Serializable ==
    (\A p \in Procs : pc[p] \in {"idle", "done"})
        => SerialFrom(base, {p \in Procs : pc[p] = "done"})

\* C8: a read that runs while a request is being saved answers from the
\* ledger as it was before that save or as it is after it.
C8_ReadsSeeWholeLedger ==
    \A p \in Procs :
        (pc[p] = "done" /\ req[p].op \in ReadOps)
            => \E v \in req[p].snap : resp[p] = Body(load_data(v), req[p]).resp

\* the response the four checks of use-referral give when made in the order
\* format, token, duplicate referee, cap
C9_Expected(f, rawReferrer, rawReferee, token) ==
    IF ~is_valid_address(lower(rawReferrer)) \/ ~is_valid_address(lower(rawReferee))
    THEN RespInvalidAddress
    ELSE IF token # VALID_FAUCET_USAGE THEN RespBadToken
    ELSE IF HasReferee(active(f), lower(rawReferee)) THEN RespDuplicate
    ELSE IF CountReferrer(active(f), lower(rawReferrer)) >= Cap THEN RespCapExceeded
    ELSE RespAttached

\* C9: use-referral answers with the first failing check in the order address
\* format, token, duplicate referee, cap, and succeeds exactly when none fails.
C9_FirstFailingCheckWins ==
    last.op = "use_referral"
        => last.resp = C9_Expected(last.pre, last.a1, last.a2, last.key)

\* a request whose referee is already attached and whose referrer is at the
\* cap: both of the last two checks fail, and the duplicate is reported
C9_Witness ==
    /\ LastUseValid
    /\ HasReferee(active(last.pre), lower(last.a2))
    /\ CountReferrer(active(last.pre), lower(last.a1)) >= Cap
    /\ last.resp = RespDuplicate

\* C10: use-referral with a wrong token is always refused with "invalid
\* token" (401), whether or not the addresses are well formed.
C10_WrongTokenAlwaysUnauthorized ==
    (last.op = "use_referral" /\ last.key # VALID_FAUCET_USAGE)
        => last.resp = RespBadToken

\* C10 as amended: use-referral with a wrong token never succeeds; it is
\* refused with "invalid token" (401) when both addresses are well formed and
\* with "invalid address" (400) otherwise.
C10_WrongTokenRefused ==
    (last.op = "use_referral" /\ last.key # VALID_FAUCET_USAGE)
        => last.resp = IF is_valid_address(lower(last.a1)) /\ is_valid_address(lower(last.a2))
                       THEN RespBadToken
                       ELSE RespInvalidAddress

\* a wrong token sent with well-formed addresses was refused with 401
C10_Witness ==
    /\ last.op = "use_referral"
    /\ last.key # VALID_FAUCET_USAGE
    /\ is_valid_address(lower(last.a1)) /\ is_valid_address(lower(last.a2))
    /\ last.resp = RespBadToken

----------------------------------------------------------------------------
\* the responses of a request refused by a check
C11_Failures ==
    {RespInvalidAddress, RespBadToken, RespDuplicate, RespCapExceeded, RespNotAuthorized}

\* C11: a request refused by a check (register-referral with a malformed
\* address; use-referral refused for a malformed address, a wrong token, a
\* duplicate referee or the cap; mark-paid with a wrong key) leaves the file,
\* and so the active and the archived list, exactly as they were.
C11_FailedValidationChangesNothing ==
    last.resp \in C11_Failures => file = last.pre

\* a use-referral request was refused at the cap, the last of the checks,
\* made on the loaded ledger
C11_Witness ==
    /\ LastUseValid
    /\ last.resp = RespCapExceeded
    /\ last.pre.exists
    /\ Len(active(last.pre)) >= Cap

\* number of records of s with referrer a and no referee
CountRegistration(s, a) ==
    Cardinality({i \in 1..Len(s) : s[i].referrer = a /\ s[i].referee = EmptyStr})

\* the last request served was register-referral with a well-formed address
LastRegisterValid ==
    /\ last.op = "register_referral"
    /\ is_valid_address(lower(last.a1))

\* the same register-referral request served once more, from the file as it
\* stands: [file, resp]
RegisterAgain == Handle(file, Request("register_referral", last.a1, EmptyStr, ""))

C13_PaidFlagFollowsList ==
    /\ \A i \in 1..Len(active(file)) : ~active(file)[i].paid
    /\ \A j \in 1..Len(archived(file)) : archived(file)[j].paid
    /\ \A i \in 1..Len(active(file)), j \in 1..Len(archived(file)) :
          active(file)[i] # archived(file)[j]

\* a referee settled and archived has been attached again by the same
\* referrer: the two lists hold records that differ in the paid flag only
C13_Witness ==
    \E i \in 1..Len(active(file)), j \in 1..Len(archived(file)) :
        /\ active(file)[i].referrer = archived(file)[j].referrer
        /\ active(file)[i].referee = archived(file)[j].referee
        /\ active(file)[i].referee # EmptyStr

\* C14: payout-list answers total_people = 2 * len(active) and
\* total_ommv_to_send = 5 * total_people, and its list holds for each active
\* record, in order, an entry of 5 for the referrer and an entry of 5 for
\* the referee, the referee's wallet being the empty string when the record
\* has none.
C14_PayoutListShape ==
    last.op = "payout_list"
        => /\ last.resp.total_people = 2 * Len(active(file))
           /\ last.resp.total_ommv_to_send = 5 * last.resp.total_people
           /\ Len(last.resp.multisend_list) = 2 * Len(active(file))
           /\ \A i \in 1..Len(active(file)) :
                 /\ last.resp.multisend_list[2 * i - 1]
                        = [wallet |-> active(file)[i].referrer, amount |-> 5]
                 /\ last.resp.multisend_list[2 * i]
                        = [wallet |-> active(file)[i].referee, amount |-> 5]

\* the payout list of a ledger holding a registration record and an attached
\* referee: four entries, one of them for the empty wallet
C14_Witness ==
    /\ last.op = "payout_list"
    /\ Len(active(file)) = 2
    /\ active(file)[1].referee = EmptyStr
    /\ active(file)[2].referee # EmptyStr
    /\ last.resp.multisend_list[2] = [wallet |-> EmptyStr, amount |-> 5]
    /\ last.resp.total_ommv_to_send = 20

RECURSIVE RecordsOf(_, _)
\* the records of s with referrer a, in the order of s
RecordsOf(s, a) ==
    IF s = <<>> THEN <<>>
    ELSE (IF Head(s).referrer = a THEN <<Head(s)>> ELSE <<>>) \o RecordsOf(Tail(s), a)

\* C15: referral-status for address A answers from the active list only:
\* total_referrals is the number of active records with referrer A, paid the
\* number of those with paid = true, unpaid = total_referrals - paid, and
\* referrals those records in insertion order; right after a mark-paid that
\* succeeded, total_referrals is 0 for every address.
C15_StatusFromActiveOnly ==
    /\ last.op = "referral_status"
          => /\ last.resp.total_referrals = CountReferrer(active(file), lower(last.a1))
             /\ last.resp.paid = Cardinality({i \in 1..Len(active(file)) :
                                      /\ active(file)[i].referrer = lower(last.a1)
                                      /\ active(file)[i].paid})
             /\ last.resp.unpaid = last.resp.total_referrals - last.resp.paid
             /\ last.resp.referrals = RecordsOf(active(file), lower(last.a1))
    /\ (last.op = "mark_paid" /\ last.resp = RespMarkedPaid)
          => \A raw \in RawStatus :
                Handle(file, Request("referral_status", raw, EmptyStr, "")).resp.total_referrals = 0

\* referral-status asked for a referrer that has records in both lists
C15_Witness ==
    /\ last.op = "referral_status"
    /\ CountReferrer(archived(file), lower(last.a1)) > 0
    /\ CountReferrer(active(file), lower(last.a1)) > 0
    /\ last.resp.total_referrals = CountReferrer(active(file), lower(last.a1))

C17_AttachAppendsOneRecord ==
    /\ (last.op = "use_referral" /\ last.resp = RespAttached)
          => /\ active(file) = Append(active(last.pre),
                                      Record(lower(last.a1), lower(last.a2), FALSE))
             /\ archived(file) = archived(last.pre)
    /\ ( /\ LastUseValid
         /\ ~HasReferee(active(last.pre), lower(last.a2))
         /\ CountReferrer(active(last.pre), lower(last.a1)) < Cap )
          => last.resp = RespAttached

\* a referee attached to a referrer that has a registration record, which
\* stays in its place, with settled records in the archive
C17_Witness ==
    /\ last.op = "use_referral"
    /\ last.resp = RespAttached
    /\ CountRegistration(active(last.pre), lower(last.a1)) = 1
    /\ CountRegistration(active(file), lower(last.a1)) = 1
    /\ archived(file) # <<>>

\* C18: referral-status and payout-list leave the active and the archived
\* list, paid flags included, as they were.
C18_ReadsChangeNothing ==
    last.op \in {"referral_status", "payout_list"}
        => /\ active(file) = active(last.pre)
           /\ archived(file) = archived(last.pre)

\* a read of a ledger that has active and archived records
C18_Witness ==
    /\ last.op \in {"referral_status", "payout_list"}
    /\ active(last.pre) # <<>>
    /\ archived(last.pre) # <<>>

\* number of records of s with referrer a and a referee
CountAttached(s, a) ==
    Cardinality({i \in 1..Len(s) : s[i].referrer = a /\ s[i].referee # EmptyStr})

\* C20: the cap counts the registration record. A use-referral request with
\* well-formed addresses, the right token and a referee in no active record
\* succeeds while the referrer's attached records are fewer than Cap less
\* its registration record (at most one), and is refused with "limit
\* reached" when they are as many: Cap - 1 referees after a registration,
\* Cap without one.
C20_CapCountsRegistration ==
    /\ \A a \in Wallets : CountRegistration(active(file), a) <= 1
    /\ (LastUseValid /\ ~HasReferee(active(last.pre), lower(last.a2)))
          => /\ (last.resp = RespAttached)
                   <=> CountAttached(active(last.pre), lower(last.a1))
                         < Cap - CountRegistration(active(last.pre), lower(last.a1))
             /\ (last.resp = RespCapExceeded)
                   <=> CountAttached(active(last.pre), lower(last.a1))
                         = Cap - CountRegistration(active(last.pre), lower(last.a1))

\* a registered referrer refused at the cap with Cap - 1 referees attached
C20_Witness ==
    /\ LastUseValid
    /\ last.resp = RespCapExceeded
    /\ CountRegistration(active(last.pre), lower(last.a1)) = 1
    /\ CountAttached(active(last.pre), lower(last.a1)) = Cap - 1

\* C19: when a step of a backup export fails (making the backup folder,
\* loading the ledger, writing the snapshot), the failure is logged and the
\* scheduler loop goes on running.
C19_BackupFailureLoggedLoopRuns ==
    sched.failed # "none" => (sched.log = "error" /\ sched.pc = "running")

====
